---- MODULE Spec2Model ----
(***************************************************************************)
(* Model of project_elegance: the ImageHandler (data.py), the ImageFilter  *)
(* and the AnimationPreRenderer batches (filter.py / prerender.py) and the *)
(* controller that chains the batches (main.py).                           *)
(*                                                                         *)
(* Rasters.  An image is a row of ImgW cells; every cell stands for a      *)
(* block of CellPx x ImgH pixels that share one BGR sample, i.e. the       *)
(* inputs are images made of vertical stripes.  Per-pixel operations       *)
(* (absdiff, cvtColor, threshold) are exact on the cells.  CellPx equals   *)
(* dilationIter, so the ten 3x3 dilations of the code grow the foreground  *)
(* by exactly one cell.  A connected component of the dilated mask is a    *)
(* run of cells, its contour is the rectangle through the centres of its   *)
(* corner pixels.                                                          *)
(***************************************************************************)
EXTENDS Integers, Sequences, FiniteSets, TLC

\* ------------------------------------------------------------------ bounds
MaxFrame == 2        \* frame numbers of a batch range lie in 1..MaxFrame
MaxDiff  == 1        \* fDiff lies in 1..MaxDiff
ImgW     == 9        \* width of an image, in cells
ImgH     == 30       \* height of an image, in pixels
JpegStep == 2        \* quantisation step of the lossy jpeg round trip
MaxCalls == 2        \* handler calls per worker in the concurrent specification
MaxStoreCalls == 3   \* handler calls of the sequential caller
MaxInvoke == 2       \* calls of computing methods on the ImageFilter object
MaxPerf  == 1        \* calls of _updatePerformanceMeasuring
MaskLen  == 5        \* pixel columns of a mask in the morphology calls
MaxIter  == 3        \* iterations of a morphology call lie in 0..MaxIter

\* -------------------------------------------------------- program constants
threshold      == 25
dilationIter   == 10
contourMinArea == 1000
otsuThreshold  == 127
maxval         == 255

CellPx == dilationIter

availableTypes == {"raw", "otsu", "difference", "track", "heat"}

\* A directory name that is not one of the available types.
UnknownType == "roi"

\* ------------------------------------------------------------------ values
None    == [kind |-> "None"]
Corrupt == [kind |-> "corrupt"]

Image(px, rects) == [kind |-> "img", px |-> px, rects |-> rects]

IsImage(v) == v.kind = "img"

Ok(v)     == [err |-> "", val |-> v]
Raise(e)  == [err |-> e, val |-> None]

Abs(n) == IF n < 0 THEN -n ELSE n

\* --------------------------------------------------------------- cv2 calls
\* cv2.subtract in place of cv2.absdiff: a - b, saturated at 0.
absdiffSubtract(img1, img2) ==
    IF ~IsImage(img1) \/ ~IsImage(img2) THEN Raise("cv2.error")
    ELSE IF Len(img1.px) # Len(img2.px) THEN Raise("cv2.error")
    ELSE Ok(Image([i \in 1..Len(img1.px) |->
                      [c \in 1..3 |-> IF img1.px[i][c] > img2.px[i][c]
                                      THEN img1.px[i][c] - img2.px[i][c] ELSE 0]],
                  <<>>))

\* The difference of the arrays in 8-bit arithmetic: a - b modulo 256.
absdiffWrapping(img1, img2) ==
    IF ~IsImage(img1) \/ ~IsImage(img2) THEN Raise("cv2.error")
    ELSE IF Len(img1.px) # Len(img2.px) THEN Raise("cv2.error")
    ELSE Ok(Image([i \in 1..Len(img1.px) |->
                      [c \in 1..3 |-> (img1.px[i][c] - img2.px[i][c]) % 256]],
                  <<>>))

absdiff(img1, img2) ==
    IF ~IsImage(img1) \/ ~IsImage(img2) THEN Raise("cv2.error")
    ELSE IF Len(img1.px) # Len(img2.px) THEN Raise("cv2.error")
    ELSE Ok(Image([i \in 1..Len(img1.px) |->
                      [c \in 1..3 |-> Abs(img1.px[i][c] - img2.px[i][c])]],
                  <<>>))

\* COLOR_BGR2GRAY on 8-bit samples: fixed point weights, 14 bit shift.
GrayOf(p) == (p[1] * 1868 + p[2] * 9617 + p[3] * 4899 + 8192) \div 16384

cvtColorGray(img) == [i \in 1..Len(img.px) |-> GrayOf(img.px[i])]

\* THRESH_BINARY with the threshold itself counted as above it.
ThreshBinaryInclusive(v, t, m) == IF v >= t THEN m ELSE 0

\* THRESH_BINARY on one sample.
ThreshBinary(v, t, m) == IF v > t THEN m ELSE 0

thresholdGray(gray, t, m) == [i \in 1..Len(gray) |-> ThreshBinary(gray[i], t, m)]

\* A dilation whose kernel is anchored at its right column: a cell takes
\* the value of its left neighbour only.
DilateCellShifted(mask) ==
    [i \in 1..Len(mask) |-> IF i > 1 /\ mask[i - 1] # 0 THEN maxval ELSE 0]

\* One 3x3 dilation of the cells; cells outside the image do not contribute.
DilateCell(mask) ==
    [i \in 1..Len(mask) |->
        IF \E j \in 1..Len(mask) : Abs(i - j) <= 1 /\ mask[j] # 0
        THEN maxval ELSE 0]

RECURSIVE DilateCells(_, _)
DilateCells(mask, n) == IF n = 0 THEN mask ELSE DilateCells(DilateCell(mask), n - 1)

\* cv2.dilate(mask, None, iterations): iterations pixel steps are
\* iterations \div CellPx cell steps.
dilate(mask, iterations) == DilateCells(mask, iterations \div CellPx)

\* The contours of a mask, left to right: one per maximal run of foreground
\* cells, given by the pixel coordinates of its corner points.
RunEnd(mask, i) ==
    CHOOSE j \in i..Len(mask) :
        /\ \A k \in i..j : mask[k] # 0
        /\ (j = Len(mask) \/ mask[j + 1] = 0)

RECURSIVE ContoursFrom(_, _)
ContoursFrom(mask, i) ==
    IF i > Len(mask) THEN <<>>
    ELSE IF mask[i] = 0 THEN ContoursFrom(mask, i + 1)
    ELSE LET j == RunEnd(mask, i)
         IN  <<[x0 |-> (i - 1) * CellPx, x1 |-> j * CellPx - 1,
                y0 |-> 0, y1 |-> ImgH - 1]>> \o ContoursFrom(mask, j + 1)

findContours(mask) == ContoursFrom(mask, 1)

contourArea(c) == (c.x1 - c.x0) * (c.y1 - c.y0)

boundingRect(c) == <<c.x0, c.y0, c.x1 - c.x0 + 1, c.y1 - c.y0 + 1>>

\* cv2.rectangle(img, (x, y), (x+w, y+h), colour, thickness): the drawn
\* shape is kept on the image as one more rectangle.
rectangle(img, r) ==
    Image(img.px, Append(img.rects, <<r[1], r[2], r[1] + r[3], r[2] + r[4]>>))

\* ------------------------------------------------------------- ImageFilter
\* The loop over the contours: every contour whose area is not below
\* contourMinArea gets its bounding rectangle drawn on img.
RECURSIVE DrawContours(_, _)
DrawContours(img, contours) ==
    IF contours = <<>> THEN img
    ELSE LET c == Head(contours)
         IN  IF contourArea(c) < contourMinArea
             THEN DrawContours(img, Tail(contours))
             ELSE DrawContours(rectangle(img, boundingRect(c)), Tail(contours))

\* The contours the tracking algorithm finds for a difference image.
TrackContours(diffImg) ==
    LET gray      == cvtColorGray(diffImg)
        thresh    == thresholdGray(gray, threshold, maxval)
        dillation == dilate(thresh, dilationIter)
    IN  findContours(dillation)

computeWormTrackingAlgorithm(img1, img2) ==
    IF ~IsImage(img1) THEN Raise("AttributeError")      \* None.copy()
    ELSE LET img  == Image(img1.px, img1.rects)         \* img1.copy()
             diff == absdiff(img1, img2)
         IN  IF diff.err # "" THEN diff
             ELSE Ok(DrawContours(img, TrackContours(diff.val)))

computeDifferenceAlgorithm(img1, img2) == absdiff(img1, img2)

\* cv2.threshold(img, 127, 255, THRESH_BINARY) on a colour image.
computeOtsuAlgorithm(img) ==
    IF ~IsImage(img) THEN Raise("cv2.error")
    ELSE Ok(Image([i \in 1..Len(img.px) |->
                      [c \in 1..3 |-> ThreshBinary(img.px[i][c], otsuThreshold, maxval)]],
                  <<>>))

\* ------------------------------------------------------------ ImageHandler
RECURSIVE Digits(_)
Digits(n) == IF n < 10 THEN <<n>> ELSE Append(Digits(n \div 10), n % 10)

RECURSIVE ZeroPad(_, _)
ZeroPad(ds, width) == IF Len(ds) >= width THEN ds ELSE ZeroPad(<<0>> \o ds, width)

\* A "%06d" that keeps six digits only.
Fmt06dSixOnly(fNum) == ZeroPad(Digits(fNum % 1000000), 6)

\* "%06d" % fNum for fNum >= 0, as the sequence of its digits.
Fmt06d(fNum) == ZeroPad(Digits(fNum), 6)

\* os.path.join(dir, "frame_%06d.<ext>" % fNum): directory, digits, extension.
FramePath(fType, fNum, ext) == <<fType, Fmt06d(fNum), ext>>

\* Lossy jpeg: what imread gives back for a sample written by imwrite.
JpegSample(v) ==
    LET q == ((v + JpegStep \div 2) \div JpegStep) * JpegStep
    IN  IF q > maxval THEN maxval ELSE q

JpegRoundTrip(img) ==
    Image([i \in 1..Len(img.px) |-> [c \in 1..3 |-> JpegSample(img.px[i][c])]],
          img.rects)

\* cv2.imread: None for a file that does not decode.
imread(content) == IF IsImage(content) THEN content ELSE None

\* _generateDirPath as one step: the directories afterwards and the outcome.
GenerateDirPath(ds, fType) ==
    LET made == IF fType \notin ds /\ fType \in availableTypes
                THEN ds \cup {fType} ELSE ds
    IN  [dirs |-> made, err |-> IF fType \in made THEN "" ELSE "NameError"]

\* os.path.exists(path) for a frame file.
FileExists(fl, path) == path \in DOMAIN fl

\* A readFrame that looks for the png form first.
ReadFramePngFirst(ds, fl, fNum, fType) ==
    LET g     == GenerateDirPath(ds, fType)
        jPath == FramePath(fType, fNum, "jpeg")
        pPath == FramePath(fType, fNum, "png")
    IN  IF g.err # "" THEN [dirs |-> g.dirs, err |-> g.err, val |-> None]
        ELSE IF FileExists(fl, pPath)
             THEN [dirs |-> g.dirs, err |-> "", val |-> imread(fl[pPath])]
        ELSE IF FileExists(fl, jPath)
             THEN [dirs |-> g.dirs, err |-> "", val |-> imread(fl[jPath])]
        ELSE [dirs |-> g.dirs, err |-> "NameError", val |-> None]

\* readFrame(fNum, fType): jpeg before png, NameError when neither exists.
ReadFrame(ds, fl, fNum, fType) ==
    LET g     == GenerateDirPath(ds, fType)
        jPath == FramePath(fType, fNum, "jpeg")
        pPath == FramePath(fType, fNum, "png")
    IN  IF g.err # "" THEN [dirs |-> g.dirs, err |-> g.err, val |-> None]
        ELSE IF FileExists(fl, jPath)
             THEN [dirs |-> g.dirs, err |-> "", val |-> imread(fl[jPath])]
        ELSE IF FileExists(fl, pPath)
             THEN [dirs |-> g.dirs, err |-> "", val |-> imread(fl[pPath])]
        ELSE [dirs |-> g.dirs, err |-> "NameError", val |-> None]

\* A writeImage that names the file after the next frame.
WriteImageNextFrame(ds, fl, fNum, fType, image) ==
    LET g     == GenerateDirPath(ds, fType)
        fPath == FramePath(fType, fNum + 1, "jpeg")
    IN  IF g.err # "" THEN [dirs |-> g.dirs, files |-> fl, err |-> g.err]
        ELSE [dirs |-> g.dirs,
              files |-> [p \in DOMAIN fl \cup {fPath} |->
                            IF p = fPath THEN JpegRoundTrip(image) ELSE fl[p]],
              err |-> ""]

\* writeImage(fNum, fType, image): always the jpeg form.
WriteImage(ds, fl, fNum, fType, image) ==
    LET g     == GenerateDirPath(ds, fType)
        fPath == FramePath(fType, fNum, "jpeg")
    IN  IF g.err # "" THEN [dirs |-> g.dirs, files |-> fl, err |-> g.err]
        ELSE [dirs |-> g.dirs,
              files |-> [p \in DOMAIN fl \cup {fPath} |->
                            IF p = fPath THEN JpegRoundTrip(image) ELSE fl[p]],
              err |-> ""]

\* ---------------------------------------------------- AnimationPreRenderer
\* The algorithm of a batch on the frames read for one index.
BatchResult(b, a1, a2) ==
    IF b = "otsu" THEN computeOtsuAlgorithm(a1)
    ELSE IF b = "difference" THEN computeDifferenceAlgorithm(a1, a2)
    ELSE computeWormTrackingAlgorithm(a1, a2)

\* The reads and the computation of the loop body of batch b for index i:
\* the image to be written, or the exception that leaves the loop.
ItemOut(ds, fl, b, i, d) ==
    LET r1 == ReadFrame(ds, fl, i, "raw")
    IN  IF r1.err # "" THEN Raise(r1.err)
        ELSE IF b = "otsu" THEN BatchResult(b, r1.val, None)
        ELSE LET r2 == ReadFrame(r1.dirs, fl, i + d, "raw")
             IN  IF r2.err # "" THEN Raise(r2.err)
                 ELSE BatchResult(b, r1.val, r2.val)

\* One pass through the loop body, from the store st = [dirs, files, err];
\* once an exception has left the loop nothing more is done.
StepItem(st, b, i, d) ==
    IF st.err # "" THEN st
    ELSE LET o == ItemOut(st.dirs, st.files, b, i, d)
         IN  IF o.err # "" THEN [dirs |-> st.dirs \cup {"raw"}, files |-> st.files, err |-> o.err]
             ELSE WriteImage(st.dirs \cup {"raw"}, st.files, i, b, o.val)

\* The loop of a generator, visiting the indices in the given order.
RECURSIVE RunOrder(_, _, _, _)
RunOrder(st, b, order, d) ==
    IF order = <<>> THEN st
    ELSE RunOrder(StepItem(st, b, Head(order), d), b, Tail(order), d)

\* range(a, b + 1)
RangeSeq(a, b) == [k \in 1..(IF b >= a THEN b - a + 1 ELSE 0) |-> a + k - 1]

\* ------------------------------------------------------------- input data
bgPix   == <<201, 201, 201>>
wormPix == <<11, 11, 11>>

Stripes(S, w) == Image([i \in 1..w |-> IF i \in S THEN wormPix ELSE bgPix], <<>>)

RBlank     == Stripes({}, ImgW)
RLeft      == Stripes(1..3, ImgW)
RLeftRight == Stripes((1..3) \cup ((ImgW - 2)..ImgW), ImgW)
RSpot      == Stripes({5}, ImgW)
RShort     == Stripes({}, ImgW - 1)

whitePix == <<255, 255, 255>>

\* A frame with samples at the thresholds: 25 and 26 below the background,
\* and 127, 128 and 255 in one pixel.
REdge ==
    Image([i \in 1..ImgW |->
              IF i = 1 THEN <<176, 176, 176>>
              ELSE IF i = 2 THEN <<175, 175, 175>>
              ELSE IF i = 3 THEN <<127, 128, 255>>
              ELSE bgPix],
          <<>>)

\* The rasters a caller hands to the ImageFilter object.
FilterRasters == {RBlank, RLeft, RLeftRight, RSpot, RShort, REdge}

\* The recording: the worm of frame n, and the file form frame n was saved
\* in (jpeg, png, or a jpeg beside an older png).
FilmForm(n) ==
    IF n % 3 = 1 THEN [jpeg |-> RLeft, png |-> None]
    ELSE IF n % 3 = 2 THEN [jpeg |-> None, png |-> RLeftRight]
    ELSE [jpeg |-> RSpot, png |-> RLeft]

\* The forms raw frame n can have on disk: the content of its jpeg and of
\* its png file, None for a file that does not exist.
RawForms(n) ==
    { [jpeg |-> None,    png |-> None],
      FilmForm(n),
      [jpeg |-> RBlank,  png |-> None],
      [jpeg |-> Corrupt, png |-> None],
      [jpeg |-> None,    png |-> RShort] }

\* The raw frames a run over a..b with offset d reads.
FramesRead(a, b, d) == (a..b) \cup ((a + d)..(b + d))

\* The files of the raw directory for a choice of forms of the frames fs.
RawFiles(fs, form) ==
    LET paths == { FramePath("raw", n, e) : n \in fs, e \in {"jpeg", "png"} }
        has   == { p \in paths :
                     \E n \in fs : \E e \in {"jpeg", "png"} :
                        p = FramePath("raw", n, e) /\ form[n][e] # None }
    IN  [p \in has |->
            LET n == CHOOSE m \in fs : p[2] = Fmt06d(m)
            IN  form[n][p[3]]]

\* The batches and the directory each writes to.
Batches == {"otsu", "difference", "track"}

\* preRenderAllAnimation, or one generator called on its own.
Plans == { <<"otsu", "difference", "track">>, <<"otsu">>, <<"difference">>, <<"track">> }

Workers == {1, 2}

VARIABLES
    dirs,       \* the image directories that exist
    files,      \* path -> content of the frame files that exist
    fStart, fEnd, fDiff,    \* the arguments of the run
    plan,       \* the batches still to be called
    batch,      \* the batch that is running
    pc,         \* position of the run
    f,          \* loop variable of the running batch
    img1, img2, out,        \* locals of the loop body
    err,        \* the exception that ended the run, "" if none
    written,    \* the writeImage calls that returned, in order
    files0,     \* the files when the run started
    wpc, wcall, werr, wval, wcnt,   \* the workers of the concurrent specification
    variant,    \* the module the ImageFilter object comes from
    fobj,       \* the fields of the ImageFilter object
    fcall,      \* the running ImageFilter method: its position and locals
    heap,       \* the image buffers: heap[1], heap[2] are the caller's rasters
    fhist,      \* history of the calls on the ImageFilter object
    morph       \* a morphology call: mask, operation, iterations, result

vars == <<dirs, files, fStart, fEnd, fDiff, plan, batch, pc, f, img1, img2, out,
          err, written, files0, wpc, wcall, werr, wval, wcnt,
          variant, fobj, fcall, heap, fhist, morph>>

runVars    == <<fStart, fEnd, fDiff, plan, batch, pc, f, img1, img2, out, err,
                written, files0>>
workerVars == <<wpc, wcall, werr, wval, wcnt>>
filterVars == <<variant, fobj, fcall, heap, fhist>>

IdleWorkers ==
    /\ wpc   = [w \in Workers |-> "idle"]
    /\ wcall = [w \in Workers |-> [op |-> "none", fType |-> "raw", fNum |-> 0, image |-> None]]
    /\ werr  = [w \in Workers |-> ""]
    /\ wval  = [w \in Workers |-> None]
    /\ wcnt  = [w \in Workers |-> 0]

\* ImageFilter.__init__: the frame counter and the timer of a new object.
NewFilter == [currentFrame |-> 0, timeStart |-> "None", err |-> ""]

\* The methods of the ImageFilter object that compute an image.
FilterOps == {"track", "difference", "otsu"}

\* No method is running: the locals are unbound (0 names no buffer).
NoCall ==
    [op |-> "none", stage |-> "idle", img |-> 0, blank |-> 0, diff |-> 0,
     thresh |-> 0, dillation |-> 0, contours |-> <<>>, radius |-> 0,
     center |-> 0, ret |-> None]

\* What the stages of the running call produced, as it was when produced.
NothingMade ==
    [base |-> None, diff |-> None, gray |-> None, thresh |-> None,
     dillation |-> None, contours |-> <<>>]

NoHistory ==
    [calls |-> 0, trace |-> <<>>, made |-> NothingMade, self0 |-> NewFilter,
     first |-> None, in0 |-> <<>>]

NoMorph == [op |-> "none", src |-> <<>>, iterations |-> 0, res |-> <<>>, done |-> FALSE]

IdleFilter ==
    /\ variant = "filter"
    /\ fobj = NewFilter
    /\ fcall = NoCall
    /\ heap = <<>>
    /\ fhist = NoHistory

IdleMorph == morph = NoMorph

Init ==
    /\ fStart \in 1..MaxFrame
    /\ fEnd \in fStart..MaxFrame
    /\ fDiff \in 1..MaxDiff
    /\ \E form \in [FramesRead(fStart, fEnd, fDiff) -> UNION { RawForms(n) : n \in 1..3 }] :
          /\ \A n \in DOMAIN form : form[n] \in RawForms(n)
          /\ files = RawFiles(DOMAIN form, form)
    /\ dirs = IF files = <<>> THEN {} ELSE {"raw"}
    /\ files0 = files
    /\ plan \in Plans
    /\ batch = "none"
    /\ pc = "call"
    /\ f = 0
    /\ img1 = None /\ img2 = None /\ out = None
    /\ err = ""
    /\ written = <<>>
    /\ IdleWorkers
    /\ IdleFilter
    /\ IdleMorph

\* The generators called in the reverse order: the last of the plan first.
StartBatchLast ==
    /\ pc = "call" /\ plan # <<>>
    /\ batch' = plan[Len(plan)]
    /\ plan' = SubSeq(plan, 1, Len(plan) - 1)
    /\ f' = fStart
    /\ pc' = "loop"
    /\ UNCHANGED <<dirs, files, fStart, fEnd, fDiff, img1, img2, out, err, written,
                   files0, workerVars, filterVars, morph>>

\* A generator whose loop starts one index late.
StartBatchSkipFirst ==
    /\ pc = "call" /\ plan # <<>>
    /\ batch' = Head(plan)
    /\ plan' = Tail(plan)
    /\ f' = fStart + 1
    /\ pc' = "loop"
    /\ UNCHANGED <<dirs, files, fStart, fEnd, fDiff, img1, img2, out, err, written,
                   files0, workerVars, filterVars, morph>>

\* A generator is called: the next batch of the plan starts its loop.
StartBatch ==
    /\ pc = "call" /\ plan # <<>>
    /\ batch' = Head(plan)
    /\ plan' = Tail(plan)
    /\ f' = fStart
    /\ pc' = "loop"
    /\ UNCHANGED <<dirs, files, fStart, fEnd, fDiff, img1, img2, out, err, written,
                   files0, workerVars, filterVars, morph>>

\* for f in range(fStart, fEnd+1): next index, or the generator returns.
LoopHead ==
    /\ pc = "loop"
    /\ pc' = IF f <= fEnd THEN "read1" ELSE "call"
    /\ UNCHANGED <<dirs, files, fStart, fEnd, fDiff, plan, batch, f, img1, img2, out,
                   err, written, files0, workerVars, filterVars, morph>>

\* img1 = readFrame(f, "raw")
ReadFirst ==
    /\ pc = "read1"
    /\ LET r == ReadFrame(dirs, files, f, "raw")
       IN  /\ dirs' = r.dirs
           /\ img1' = r.val
           /\ err' = r.err
           /\ pc' = IF r.err # "" THEN "raised"
                    ELSE IF batch = "otsu" THEN "compute" ELSE "read2"
    /\ UNCHANGED <<files, fStart, fEnd, fDiff, plan, batch, f, img2, out, written,
                   files0, workerVars, filterVars, morph>>

\* A second read that recovers from a missing frame with the first frame.
ReadSecondRecover ==
    /\ pc = "read2"
    /\ LET r == ReadFrame(dirs, files, f + fDiff, "raw")
       IN  /\ dirs' = r.dirs
           /\ img2' = IF r.err # "" THEN img1 ELSE r.val
           /\ err' = ""
           /\ pc' = "compute"
    /\ UNCHANGED <<files, fStart, fEnd, fDiff, plan, batch, f, img1, out, written,
                   files0, workerVars, filterVars, morph>>

\* A second read that forgets the offset and reads frame f again.
ReadSecondNoOffset ==
    /\ pc = "read2"
    /\ LET r == ReadFrame(dirs, files, f, "raw")
       IN  /\ dirs' = r.dirs
           /\ img2' = r.val
           /\ err' = r.err
           /\ pc' = IF r.err # "" THEN "raised" ELSE "compute"
    /\ UNCHANGED <<files, fStart, fEnd, fDiff, plan, batch, f, img1, out, written,
                   files0, workerVars, filterVars, morph>>

\* img2 = readFrame(f + fDiff, "raw")
ReadSecond ==
    /\ pc = "read2"
    /\ LET r == ReadFrame(dirs, files, f + fDiff, "raw")
       IN  /\ dirs' = r.dirs
           /\ img2' = r.val
           /\ err' = r.err
           /\ pc' = IF r.err # "" THEN "raised" ELSE "compute"
    /\ UNCHANGED <<files, fStart, fEnd, fDiff, plan, batch, f, img1, out, written,
                   files0, workerVars, filterVars, morph>>

\* The algorithm of the running batch on the frames just read.
Compute ==
    /\ pc = "compute"
    /\ LET r == BatchResult(batch, img1, img2)
       IN  /\ out' = r.val
           /\ err' = r.err
           /\ pc' = IF r.err # "" THEN "raised" ELSE "write"
    /\ UNCHANGED <<dirs, files, fStart, fEnd, fDiff, plan, batch, f, img1, img2,
                   written, files0, workerVars, filterVars, morph>>

\* writeImage(f, <batch>, out), then the loop goes on with f + 1.
Write ==
    /\ pc = "write"
    /\ LET r == WriteImage(dirs, files, f, batch, out)
       IN  /\ dirs' = r.dirs
           /\ files' = r.files
           /\ err' = r.err
           /\ written' = IF r.err # "" THEN written
                         ELSE Append(written, [fType |-> batch, fNum |-> f,
                                               path |-> FramePath(batch, f, "jpeg")])
           /\ pc' = IF r.err # "" THEN "raised" ELSE "loop"
           /\ f' = IF r.err # "" THEN f ELSE f + 1
    /\ UNCHANGED <<fStart, fEnd, fDiff, plan, batch, img1, img2, out, files0,
                   workerVars, filterVars, morph>>

\* Every generator of the plan returned.
Finish ==
    /\ pc = "call" /\ plan = <<>>
    /\ pc' = "done"
    /\ UNCHANGED <<dirs, files, fStart, fEnd, fDiff, plan, batch, f, img1, img2, out,
                   err, written, files0, workerVars, filterVars, morph>>

Next == StartBatch \/ LoopHead \/ ReadFirst \/ ReadSecond \/ Compute \/ Write \/ Finish

Spec == Init /\ [][Next]_vars

TypeOK ==
    /\ dirs \subseteq availableTypes
    /\ pc \in {"call", "loop", "read1", "read2", "compute", "write", "done", "raised"}
    /\ (pc = "raised") = (err # "")

\* -------------------------------------------------- concurrent handler calls
\* Two workers call readFrame / writeImage of one ImageHandler; a call goes
\* through _generateDirPath one file system operation at a time.
CallTypes == {"raw", "track", UnknownType}
CallNums  == {1}

RunIdle ==
    /\ fStart = 1 /\ fEnd = 1 /\ fDiff = 1
    /\ plan = <<>> /\ batch = "none" /\ pc = "done" /\ f = 0
    /\ img1 = None /\ img2 = None /\ out = None
    /\ err = "" /\ written = <<>>

ConcInit ==
    /\ dirs \in SUBSET {"raw", "track"}
    /\ \E form \in [CallNums -> UNION { RawForms(n) : n \in CallNums }] :
          /\ \A n \in DOMAIN form : form[n] \in RawForms(n)
          /\ files = IF "raw" \in dirs THEN RawFiles(DOMAIN form, form) ELSE <<>>
    /\ files0 = files
    /\ RunIdle
    /\ IdleWorkers
    /\ IdleFilter
    /\ IdleMorph

\* A worker enters readFrame or writeImage.
WCall(w) ==
    /\ wpc[w] \in {"idle", "returned"} /\ wcnt[w] < MaxCalls
    /\ \E op \in {"read", "write"}, t \in CallTypes, n \in CallNums, i \in {RSpot} :
          wcall' = [wcall EXCEPT ![w] = [op |-> op, fType |-> t, fNum |-> n,
                                         image |-> IF op = "write" THEN i ELSE None]]
    /\ wpc' = [wpc EXCEPT ![w] = "check"]
    /\ werr' = [werr EXCEPT ![w] = ""]
    /\ wval' = [wval EXCEPT ![w] = None]
    /\ wcnt' = [wcnt EXCEPT ![w] = @ + 1]
    /\ UNCHANGED <<dirs, files, runVars, filterVars, morph>>

\* if not os.path.exists(absPath) and fType in availableTypes:
WCheck(w) ==
    /\ wpc[w] = "check"
    /\ wpc' = [wpc EXCEPT ![w] =
                  IF wcall[w].fType \notin dirs /\ wcall[w].fType \in availableTypes
                  THEN "makedirs" ELSE "check2"]
    /\ UNCHANGED <<dirs, files, runVars, filterVars, morph, wcall, werr, wval, wcnt>>

\* os.makedirs(absPath): OSError when the directory exists by now.
WMakedirs(w) ==
    /\ wpc[w] = "makedirs"
    /\ IF wcall[w].fType \in dirs
       THEN /\ werr' = [werr EXCEPT ![w] = "OSError"]
            /\ wpc' = [wpc EXCEPT ![w] = "returned"]
            /\ dirs' = dirs
       ELSE /\ dirs' = dirs \cup {wcall[w].fType}
            /\ wpc' = [wpc EXCEPT ![w] = "check2"]
            /\ werr' = werr
    /\ UNCHANGED <<files, runVars, filterVars, morph, wcall, wval, wcnt>>

\* if os.path.exists(absPath): return absPath, else NameError.
WCheck2(w) ==
    /\ wpc[w] = "check2"
    /\ IF wcall[w].fType \in dirs
       THEN /\ wpc' = [wpc EXCEPT ![w] = "io"]
            /\ werr' = werr
       ELSE /\ wpc' = [wpc EXCEPT ![w] = "returned"]
            /\ werr' = [werr EXCEPT ![w] = "NameError"]
    /\ UNCHANGED <<dirs, files, runVars, filterVars, morph, wcall, wval, wcnt>>

\* The rest of readFrame or writeImage, with the directory path in hand.
WIo(w) ==
    /\ wpc[w] = "io"
    /\ LET c == wcall[w]
       IN  IF c.op = "read"
           THEN LET r == ReadFrame(dirs, files, c.fNum, c.fType)
                IN  /\ werr' = [werr EXCEPT ![w] = r.err]
                    /\ wval' = [wval EXCEPT ![w] = r.val]
                    /\ files' = files
           ELSE LET r == WriteImage(dirs, files, c.fNum, c.fType, c.image)
                IN  /\ werr' = [werr EXCEPT ![w] = r.err]
                    /\ wval' = wval
                    /\ files' = r.files
    /\ wpc' = [wpc EXCEPT ![w] = "returned"]
    /\ UNCHANGED <<dirs, runVars, filterVars, morph, wcall, wcnt>>

ConcNext == \E w \in Workers : WCall(w) \/ WCheck(w) \/ WMakedirs(w) \/ WCheck2(w) \/ WIo(w)

ConcSpec == ConcInit /\ [][ConcNext]_vars

\* The sequential _generateDirPath and its steps agree when one worker runs
\* alone: a call for an available type never ends in an error of the
\* directory creation.
AloneAgrees ==
    \A w \in Workers :
        (wcnt[w] > 0 /\ \A v \in Workers \ {w} : wcnt[v] = 0) => werr[w] # "OSError"

\* C5: the on-demand creation of a category directory is safe under
\* concurrent first access: no call for a known category fails in the
\* creation of its directory.
C5_SafeFirstAccess ==
    \A w \in Workers :
        (wpc[w] = "returned" /\ wcall[w].fType \in availableTypes) => werr[w] # "OSError"

\* ------------------------------------------------- sequential handler calls
\* One caller uses the ImageHandler, each readFrame / writeImage call whole;
\* written logs the writes that returned, with the image handed in.
StoreNums   == {1, 2}
StoreImages == {RSpot, REdge}

\* The raw directory holds frame 1 in one of its forms, or does not exist.
HandlerInit ==
    /\ dirs \in SUBSET {"raw", "track"}
    /\ \E fm \in RawForms(1) \cup RawForms(3) :
          files = IF "raw" \in dirs THEN RawFiles({1}, [n \in {1} |-> fm]) ELSE <<>>
    /\ files0 = files
    /\ RunIdle
    /\ IdleWorkers
    /\ IdleFilter
    /\ IdleMorph

\* img = imageHandler.readFrame(fNum, fType)
ReadCall ==
    /\ wcnt[1] < MaxStoreCalls
    /\ \E t \in CallTypes, n \in StoreNums :
          LET r == ReadFrame(dirs, files, n, t)
          IN  /\ wcall' = [wcall EXCEPT ![1] = [op |-> "read", fType |-> t,
                                                fNum |-> n, image |-> None]]
              /\ werr' = [werr EXCEPT ![1] = r.err]
              /\ wval' = [wval EXCEPT ![1] = r.val]
              /\ dirs' = r.dirs
    /\ wpc' = [wpc EXCEPT ![1] = "returned"]
    /\ wcnt' = [wcnt EXCEPT ![1] = @ + 1]
    /\ UNCHANGED <<files, runVars, filterVars, morph>>

\* imageHandler.writeImage(fNum, fType, image)
WriteCall ==
    /\ wcnt[1] < MaxStoreCalls
    /\ \E t \in CallTypes, n \in StoreNums, i \in StoreImages :
          LET r == WriteImage(dirs, files, n, t, i)
          IN  /\ wcall' = [wcall EXCEPT ![1] = [op |-> "write", fType |-> t,
                                                fNum |-> n, image |-> i]]
              /\ werr' = [werr EXCEPT ![1] = r.err]
              /\ dirs' = r.dirs
              /\ files' = r.files
              /\ written' = IF r.err = ""
                            THEN Append(written, [fType |-> t, fNum |-> n,
                                                  path |-> FramePath(t, n, "jpeg"),
                                                  image |-> i])
                            ELSE written
    /\ wval' = [wval EXCEPT ![1] = None]
    /\ wpc' = [wpc EXCEPT ![1] = "returned"]
    /\ wcnt' = [wcnt EXCEPT ![1] = @ + 1]
    /\ UNCHANGED <<fStart, fEnd, fDiff, plan, batch, pc, f, img1, img2, out, err,
                   files0, filterVars, morph>>

HandlerNext == ReadCall \/ WriteCall

HandlerSpec == HandlerInit /\ [][HandlerNext]_vars

\* ------------------------------------------------ ImageFilter method calls
\* One ImageFilter object and two rasters of its caller. The tracking method
\* runs statement by statement; heap holds the buffers its locals name.
Gray(px) == [kind |-> "gray", px |-> px]

\* An image with the circle and the contours drawn on it.
Canvas(px, marks) == [kind |-> "img", px |-> px, rects |-> <<>>, marks |-> marks]

\* np.zeros(img1.shape), bitwise_not in place, then the circle of centre
\* (height/2, width/2) and radius height/2.
BlankCanvas(first) ==
    Canvas([i \in 1..Len(first.px) |-> whitePix],
           <<[shape |-> "circle",
              center |-> <<ImgH \div 2, (Len(first.px) * CellPx) \div 2>>,
              radius |-> ImgH \div 2]>>)

\* cv2.drawContours(blank, contours, -1, colour): every contour is drawn.
drawContours(img, contours) ==
    Canvas(img.px,
           img.marks \o [k \in 1..Len(contours) |->
                            [shape |-> "contour", points |-> contours[k]]])

\* What findContours leaves in its source image on a build that works in
\* place (OpenCV before 3.2): foreground becomes 1 and border labels.
Clobbered(buf) == Gray([i \in 1..Len(buf.px) |-> IF buf.px[i] # 0 THEN 1 ELSE 0])

Ready == fcall.stage \in {"idle", "Done", "Raised"}

\* The caller's two rasters; the buffers of an earlier call are dropped.
Arguments == SubSeq(heap, 1, 2)

restVars == <<dirs, files, runVars, workerVars, morph>>

FilterInit ==
    /\ dirs = {} /\ files = <<>> /\ files0 = files
    /\ RunIdle
    /\ IdleWorkers
    /\ IdleMorph
    /\ variant \in {"filter", "2d_filter"}
    /\ fobj = NewFilter
    /\ fcall = NoCall
    /\ heap \in FilterRasters \X FilterRasters
    /\ fhist = [NoHistory EXCEPT !.in0 = heap]

\* A method returned: the result of the first call that returned is
\* remembered, with the fields the object had when that call was made.
Returned(op, ret, self, n) ==
    [fhist EXCEPT !.first = IF @ = None
                            THEN [kind |-> "first", op |-> op, ret |-> ret,
                                  self |-> self, call |-> n]
                            ELSE @]

\* computeWormTrackingAlgorithm is entered: img = img1.copy(), or the blank
\* canvas of estimateWormPosition.
TrackCall ==
    /\ Ready /\ fhist.calls < MaxInvoke
    /\ heap' = Append(Arguments,
                      IF variant = "filter" THEN Image(heap[1].px, heap[1].rects)
                      ELSE BlankCanvas(heap[1]))
    /\ fcall' = [NoCall EXCEPT !.op = "track", !.stage = "Start",
                               !.img = IF variant = "filter" THEN 3 ELSE 0,
                               !.blank = IF variant = "filter" THEN 0 ELSE 3]
    /\ fhist' = [fhist EXCEPT !.calls = @ + 1, !.trace = <<"Start">>,
                              !.made = [NothingMade EXCEPT !.base = heap[1]],
                              !.self0 = fobj]
    /\ UNCHANGED <<variant, fobj, restVars>>

\* diff = cv2.absdiff(img1, img2)
StageDifference ==
    /\ fcall.stage = "Start"
    /\ LET d == absdiff(heap[1], heap[2])
       IN  IF d.err # ""
           THEN /\ fcall' = [fcall EXCEPT !.stage = "Raised", !.ret = d]
                /\ UNCHANGED <<heap, fhist>>
           ELSE /\ heap' = Append(heap, d.val)
                /\ fcall' = [fcall EXCEPT !.stage = "Differenced", !.diff = Len(heap) + 1]
                /\ fhist' = [fhist EXCEPT !.trace = Append(@, "Differenced"),
                                          !.made.diff = d.val]
    /\ UNCHANGED <<variant, fobj, restVars>>

\* diff = cv2.cvtColor(diff, cv2.COLOR_BGR2GRAY): diff names a new buffer.
StageGrayFirstImage ==
    /\ fcall.stage = "Differenced"
    /\ LET g == Gray(cvtColorGray(heap[1]))
       IN  /\ heap' = Append(heap, g)
           /\ fcall' = [fcall EXCEPT !.stage = "Grayscaled", !.diff = Len(heap) + 1]
           /\ fhist' = [fhist EXCEPT !.trace = Append(@, "Grayscaled"), !.made.gray = g]
    /\ UNCHANGED <<variant, fobj, restVars>>

StageGray ==
    /\ fcall.stage = "Differenced"
    /\ LET g == Gray(cvtColorGray(heap[fcall.diff]))
       IN  /\ heap' = Append(heap, g)
           /\ fcall' = [fcall EXCEPT !.stage = "Grayscaled", !.diff = Len(heap) + 1]
           /\ fhist' = [fhist EXCEPT !.trace = Append(@, "Grayscaled"), !.made.gray = g]
    /\ UNCHANGED <<variant, fobj, restVars>>

\* _, thresh = cv2.threshold(diff, threshold, 255, cv2.THRESH_BINARY)
StageThreshold ==
    /\ fcall.stage = "Grayscaled"
    /\ LET t == Gray(thresholdGray(heap[fcall.diff].px, threshold, maxval))
       IN  /\ heap' = Append(heap, t)
           /\ fcall' = [fcall EXCEPT !.stage = "Binarized", !.thresh = Len(heap) + 1]
           /\ fhist' = [fhist EXCEPT !.trace = Append(@, "Binarized"), !.made.thresh = t]
    /\ UNCHANGED <<variant, fobj, restVars>>

\* dillation = cv2.dilate(thresh, None, iterations=dilationIter)
StageDilateByFrame ==
    /\ fcall.stage = "Binarized"
    /\ LET d == Gray(dilate(heap[fcall.thresh].px, dilationIter * (1 + fobj.currentFrame)))
       IN  /\ heap' = Append(heap, d)
           /\ fcall' = [fcall EXCEPT !.stage = "Morphed", !.dillation = Len(heap) + 1]
           /\ fhist' = [fhist EXCEPT !.trace = Append(@, "Morphed"), !.made.dillation = d]
    /\ UNCHANGED <<variant, fobj, restVars>>

StageDilate ==
    /\ fcall.stage = "Binarized"
    /\ LET d == Gray(dilate(heap[fcall.thresh].px, dilationIter))
       IN  /\ heap' = Append(heap, d)
           /\ fcall' = [fcall EXCEPT !.stage = "Morphed", !.dillation = Len(heap) + 1]
           /\ fhist' = [fhist EXCEPT !.trace = Append(@, "Morphed"), !.made.dillation = d]
    /\ UNCHANGED <<variant, fobj, restVars>>

\* cv2.findContours(dillation.copy(), ...) in filter.py and
\* cv2.findContours(dillation, ...) in 2d_filter.py; inPlace tells whether
\* the build's findContours writes into the image it is given.
StageContours ==
    /\ fcall.stage = "Morphed"
    /\ \E inPlace \in BOOLEAN :
          LET src == heap[fcall.dillation]
              cs  == findContours(src.px)
              used == IF inPlace THEN Clobbered(src) ELSE src
          IN  /\ heap' = IF variant = "filter" THEN Append(heap, used)
                         ELSE [heap EXCEPT ![fcall.dillation] = used]
              /\ fcall' = [fcall EXCEPT !.stage = "Contoured", !.contours = cs]
              /\ fhist' = [fhist EXCEPT !.trace = Append(@, "Contoured"),
                                        !.made.contours = cs]
    /\ UNCHANGED <<variant, fobj, restVars>>

\* The loop over the contours. filter.py draws on img the bounding rectangle
\* of every contour that is large enough; 2d_filter.py leaves the loop at
\* once with radius = 0 and center = 0, then draws all contours on blank.
StageEstimate ==
    /\ fcall.stage = "Contoured"
    /\ IF variant = "filter"
       THEN /\ heap' = [heap EXCEPT ![fcall.img] = DrawContours(@, fcall.contours)]
            /\ fcall' = [fcall EXCEPT !.stage = "Estimated"]
       ELSE /\ heap' = [heap EXCEPT ![fcall.blank] = drawContours(@, fcall.contours)]
            /\ fcall' = [fcall EXCEPT !.stage = "Estimated", !.radius = 0, !.center = 0]
    /\ fhist' = [fhist EXCEPT !.trace = Append(@, "Estimated")]
    /\ UNCHANGED <<variant, fobj, restVars>>

\* return img, or return estimateData["image"]
StageReturn ==
    /\ fcall.stage = "Estimated"
    /\ LET r == Ok(heap[IF variant = "filter" THEN fcall.img ELSE fcall.blank])
       IN  /\ fcall' = [fcall EXCEPT !.stage = "Done", !.ret = r]
           /\ fhist' = [Returned("track", r, fhist.self0, fhist.calls) EXCEPT !.trace = Append(@, "Done")]
    /\ UNCHANGED <<variant, fobj, heap, restVars>>

\* computeDifferenceAlgorithm(img1, img2)
DifferenceCall ==
    /\ Ready /\ fhist.calls < MaxInvoke
    /\ LET r == computeDifferenceAlgorithm(heap[1], heap[2])
       IN  /\ heap' = IF r.err = "" THEN Append(Arguments, r.val) ELSE Arguments
           /\ fcall' = [NoCall EXCEPT !.op = "difference", !.ret = r,
                                      !.stage = IF r.err = "" THEN "Done" ELSE "Raised"]
           /\ fhist' = [(IF r.err = "" THEN Returned("difference", r, fobj, fhist.calls + 1) ELSE fhist)
                           EXCEPT !.calls = @ + 1, !.trace = <<>>,
                                  !.made = NothingMade, !.self0 = fobj]
    /\ UNCHANGED <<variant, fobj, restVars>>

\* computeOtsuAlgorithm(img, 127, 255, cv2.THRESH_BINARY)
OtsuCall ==
    /\ Ready /\ fhist.calls < MaxInvoke
    /\ LET r == computeOtsuAlgorithm(heap[1])
       IN  /\ heap' = Append(Arguments, r.val)
           /\ fcall' = [NoCall EXCEPT !.op = "otsu", !.stage = "Done", !.ret = r]
           /\ fhist' = [Returned("otsu", r, fobj, fhist.calls + 1) EXCEPT
                           !.calls = @ + 1, !.trace = <<>>,
                           !.made = NothingMade, !.self0 = fobj]
    /\ UNCHANGED <<variant, fobj, restVars>>

\* _startPerformanceMeasuring: the timer starts, the counter is reset.
StartPerformanceMeasuring ==
    /\ Ready
    /\ fobj' = [currentFrame |-> 0, timeStart |-> "started", err |-> ""]
    /\ UNCHANGED <<variant, fcall, heap, fhist, restVars>>

\* _updatePerformanceMeasuring: the counter goes up, then the elapsed time
\* is taken, a TypeError when the timer was never started.
UpdatePerformanceMeasuring ==
    /\ Ready /\ fobj.currentFrame < MaxPerf
    /\ fobj' = [fobj EXCEPT !.currentFrame = @ + 1,
                            !.err = IF fobj.timeStart = "None" THEN "TypeError" ELSE ""]
    /\ UNCHANGED <<variant, fcall, heap, fhist, restVars>>

FilterNext ==
    \/ TrackCall \/ StageDifference \/ StageGray \/ StageThreshold \/ StageDilate
    \/ StageContours \/ StageEstimate \/ StageReturn
    \/ DifferenceCall \/ OtsuCall
    \/ StartPerformanceMeasuring \/ UpdatePerformanceMeasuring

FilterSpec == FilterInit /\ [][FilterNext]_vars

\* ------------------------------------------------------- morphology calls
\* cv2.dilate and the erosion the specification pairs it with, called on a
\* mask of pixel columns with a number of iterations.
Masks == [1..MaskLen -> {0, maxval}]

\* One 3x3 erosion; a neighbour outside the image counts as background.
ErodeCell(mask) ==
    [i \in 1..Len(mask) |->
        IF \A j \in (i - 1)..(i + 1) : j \in 1..Len(mask) /\ mask[j] # 0
        THEN maxval ELSE 0]

RECURSIVE ErodeCells(_, _)
ErodeCells(mask, n) == IF n = 0 THEN mask ELSE ErodeCells(ErodeCell(mask), n - 1)

MorphInit ==
    /\ dirs = {} /\ files = <<>> /\ files0 = files
    /\ RunIdle
    /\ IdleWorkers
    /\ IdleFilter
    /\ \E m \in Masks, n \in 0..MaxIter :
          morph = [NoMorph EXCEPT !.src = m, !.iterations = n]

\* cv2.dilate(mask, None, iterations=n)
DilateCall ==
    /\ ~morph.done
    /\ morph' = [morph EXCEPT !.op = "dilate", !.done = TRUE,
                              !.res = DilateCells(morph.src, morph.iterations)]
    /\ UNCHANGED <<dirs, files, runVars, workerVars, filterVars>>

\* erode(mask, iterations=n)
ErodeCall ==
    /\ ~morph.done
    /\ morph' = [morph EXCEPT !.op = "erode", !.done = TRUE,
                              !.res = ErodeCells(morph.src, morph.iterations)]
    /\ UNCHANGED <<dirs, files, runVars, workerVars, filterVars>>

MorphNext == DilateCall \/ ErodeCall

MorphSpec == MorphInit /\ [][MorphNext]_vars

\* ------------------------------------------------------------ properties
Range(sq) == { sq[k] : k \in 1..Len(sq) }

Ended == pc \in {"done", "raised"}

RawExists(fl, n) ==
    FileExists(fl, FramePath("raw", n, "jpeg")) \/ FileExists(fl, FramePath("raw", n, "png"))

\* The indices of the range for which a fetch of batch b finds no frame.
MissingIdx(b) ==
    { i \in fStart..fEnd :
        ~RawExists(files0, i) \/ (b # "otsu" /\ ~RawExists(files0, i + fDiff)) }

\* The indices of the range whose loop body raises.
FailingIdx(b) ==
    { i \in fStart..fEnd : ItemOut({"raw"}, files0, b, i, fDiff).err # "" }

Persisted(b, i) == \E k \in 1..Len(written) : written[k].fType = b /\ written[k].fNum = i

\* The files of one directory.
CatFiles(fl, t) == [p \in { q \in DOMAIN fl : q[1] = t } |-> fl[p]]

\* The state machine and the loop operator agree: between two indices the
\* output directory holds what the loop over the indices done so far gives.
LoopAgrees ==
    pc = "loop" =>
        CatFiles(files, batch) =
            CatFiles(RunOrder([dirs |-> {"raw"}, files |-> files0, err |-> ""],
                              batch, RangeSeq(fStart, f - 1), fDiff).files, batch)

\* C1: when the fetch of exactly one index of the range fails because no
\* frame exists there (and no other index fails), the batch still persists
\* an output for every other index of the range.
C1_BatchResilience ==
    (Ended /\ batch # "none" /\ Cardinality(MissingIdx(batch)) = 1
           /\ FailingIdx(batch) = MissingIdx(batch))
        => \A j \in (fStart..fEnd) \ MissingIdx(batch) : Persisted(batch, j)

\* C2: a batch run always reaches its normal end, it never terminates by an
\* escaping error.
C2_AlwaysCompletes == pc # "raised"

\* C3: at the end of a tracking batch every index whose two fetches succeed
\* (and whose computation succeeds) has exactly one output, stored under the
\* same index, computed from the frames at i and i + fDiff.
C3_OneOutputPerIndex ==
    (Ended /\ batch = "track") =>
        \A i \in fStart..fEnd :
            LET o == ItemOut({"raw"}, files0, "track", i, fDiff)
            IN  o.err = "" =>
                  /\ Cardinality({ k \in 1..Len(written) :
                        written[k].fType = "track" /\ written[k].fNum = i }) = 1
                  /\ FileExists(files, FramePath("track", i, "jpeg"))
                  /\ files[FramePath("track", i, "jpeg")] = JpegRoundTrip(o.val)

Perms(S) == { sq \in [1..Cardinality(S) -> S] : Range(sq) = S }

\* C4: the persisted outputs of a batch do not depend on the order in which
\* the loop visits the indices of the range, also when some fetches fail:
\* visiting the indices in any other order leaves the output directory as
\* the run left it.
C4_OrderIndependent ==
    (Ended /\ batch # "none") =>
        \A order \in Perms(fStart..fEnd) :
            CatFiles(RunOrder([dirs |-> {"raw"}, files |-> files0, err |-> ""],
                              batch, order, fDiff).files, batch)
                = CatFiles(files, batch)

\* Frame numbers the paths are compared on: the frames of the run and
\* numbers around the six digit width of the file name.
PathIdx == (0..(MaxFrame + MaxDiff)) \cup {10, 99999, 100000, 999999, 1000000, 1000001, 1999999}

\* C6: writeImage targets different locations for different (index,
\* category) pairs, and no two writes of a run go to the same location:
\* the location of the latest write is the location of no earlier write and
\* of no other (index, category) pair.
C6_DistinctKeys ==
    written # <<>> =>
        LET last == written[Len(written)]
        IN  /\ \A k \in 1..(Len(written) - 1) : written[k].path # last.path
            /\ \A t \in availableTypes : \A n \in PathIdx :
                  (t # last.fType \/ n # last.fNum) => FramePath(t, n, "jpeg") # last.path

C6_Witness ==
    /\ pc = "done" /\ Len(written) > fEnd - fStart + 1
    /\ \E j, k \in 1..Len(written) : written[j].fType # written[k].fType
                                     /\ written[j].fNum = written[k].fNum

\* C7: between two indices every persisted output is the complete result
\* for its own index, and the output directories hold nothing else.
C7_NoCorruption ==
    pc = "loop" =>
        /\ \A k \in 1..Len(written) :
              LET w == written[k]
                  o == ItemOut({"raw"}, files0, w.fType, w.fNum, fDiff)
              IN  /\ o.err = ""
                  /\ FileExists(files, w.path)
                  /\ files[w.path] = JpegRoundTrip(o.val)
        /\ { p \in DOMAIN files : p[1] # "raw" } = { written[k].path : k \in 1..Len(written) }
        /\ CatFiles(files, "raw") = files0

C7_Witness ==
    /\ pc = "loop" /\ batch = "track" /\ f > fStart /\ f <= fEnd
    /\ Len(written) > 0
    /\ Len(files[written[1].path].rects) > 0

\* C8: when a fetch or the computation for index f fails, the error leaves
\* the loop unchanged and nothing is persisted for f; writeImage is reached
\* only when both fetches and the computation succeeded.
C8_AllOrNothing ==
    /\ pc = "raised" =>
          /\ ~Persisted(batch, f)
          /\ ~FileExists(files, FramePath(batch, f, "jpeg"))
          /\ ItemOut({"raw"}, files0, batch, f, fDiff).err = err
    /\ pc = "write" =>
          /\ ItemOut({"raw"}, files0, batch, f, fDiff) = Ok(out)
          /\ ~Persisted(batch, f)

C8_Witness ==
    /\ pc = "raised" /\ batch = "track" /\ err = "cv2.error"
    /\ f > fStart /\ Len(written) > 0

\* The frame readFrame has just returned for the index n of the running
\* batch is the content of the jpeg file, or of the png file if there is no
\* jpeg file.
StoredRaster(fl, n) ==
    IF FileExists(fl, FramePath("raw", n, "jpeg")) THEN fl[FramePath("raw", n, "jpeg")]
    ELSE fl[FramePath("raw", n, "png")]

\* C9: readFrame raises exactly when neither form of the frame exists, and
\* when it returns it returns the raster stored at that index.
C9_FetchContract ==
    /\ (pc = "raised" /\ err = "NameError") =>
          (~RawExists(files, f) \/ (batch # "otsu" /\ ~RawExists(files, f + fDiff)))
    /\ (pc = "read1") => (RawExists(files, f) <=> ReadFrame(dirs, files, f, "raw").err = "")
    /\ (pc \in {"read2", "compute"}) =>
          /\ RawExists(files, f)
          /\ IsImage(img1) /\ img1 = StoredRaster(files, f)

\* C10: the tracking algorithm draws at most one bounding shape on the
\* overlay.
C10_AtMostOneShape ==
    (pc = "write" /\ batch = "track") => Len(out.rects) <= 1

\* ------------------------------------------- properties of the batch runs
\* Raw frames exist for the indices of the range and for no index after it.
ExactRange ==
    \A n \in FramesRead(fStart, fEnd, fDiff) : RawExists(files0, n) <=> n \in fStart..fEnd

\* Every raw frame of the range decodes, and all have one shape.
UniformFrames ==
    /\ \A n \in fStart..fEnd : RawExists(files0, n) /\ IsImage(StoredRaster(files0, n))
    /\ \A m, n \in fStart..fEnd :
          Len(StoredRaster(files0, m).px) = Len(StoredRaster(files0, n).px)

\* The indices of the range the running batch has persisted an output for.
PersistedIdx == { i \in fStart..fEnd : Persisted(batch, i) }

\* The first index of the range whose second frame lies after the range.
FirstBeyond == IF fEnd - fDiff + 1 > fStart THEN fEnd - fDiff + 1 ELSE fStart

WrittenOf(b) == SelectSeq(written, LAMBDA w : w.fType = b)

\* C22: a generator handles the indices in ascending order from fStart: in
\* every state of a run the indices with a persisted output of the running
\* batch are the contiguous prefix fStart..f-1 of the range, written in
\* that order, and an index has an output only if both of its fetches and
\* its computation succeeded.
C22_ContiguousPrefix ==
    batch # "none" =>
        /\ f <= fEnd + 1
        /\ PersistedIdx = fStart..(f - 1)
        /\ WrittenOf(batch) = [k \in 1..(f - fStart) |->
                                  [fType |-> batch, fNum |-> fStart + k - 1,
                                   path |-> FramePath(batch, fStart + k - 1, "jpeg")]]
        /\ \A i \in PersistedIdx : ItemOut({"raw"}, files0, batch, i, fDiff).err = ""

\* A run in the middle of a range: the first index is persisted, the
\* second is being fetched.
C22_Witness ==
    /\ batch = "difference" /\ pc = "read2"
    /\ f > fStart /\ f <= fEnd
    /\ PersistedIdx = {fStart}

\* The batches called so far: the running one and those with an output.
Called == ({batch} \cup { written[k].fType : k \in 1..Len(written) }) \ {"none"}

\* The run is preRenderAllAnimation: three generators, called or to call.
AllRun == Len(plan) + Cardinality(Called) = 3

HasOutput(b) == \E i \in fStart..fEnd : Persisted(b, i)

CompleteBatch(b) == \A i \in fStart..fEnd : Persisted(b, i)

BatchRank(b) == IF b = "otsu" THEN 1 ELSE IF b = "difference" THEN 2 ELSE 3

\* C23: preRenderAllAnimation runs otsu, then difference, then tracking
\* over the same range: a difference output is written only after the otsu
\* batch wrote the whole range, a tracking output only after the
\* difference batch did, outputs are never written out of that order, and
\* once a batch has failed no later batch has an output.
C23_BatchOrder ==
    AllRun =>
        /\ HasOutput("difference") => (CompleteBatch("otsu") /\ batch # "otsu")
        /\ HasOutput("track") => (CompleteBatch("difference") /\ batch = "track")
        /\ \A j, k \in 1..Len(written) :
              j < k => BatchRank(written[j].fType) <= BatchRank(written[k].fType)
        /\ pc = "raised" =>
              /\ \A b \in Batches : BatchRank(b) > BatchRank(batch) => ~HasOutput(b)
              /\ plan = SubSeq(<<"otsu", "difference", "track">>, BatchRank(batch) + 1, 3)

\* preRenderAllAnimation returned with the outputs of all three batches.
C23_Witness ==
    /\ AllRun /\ pc = "done"
    /\ CompleteBatch("otsu") /\ CompleteBatch("difference") /\ CompleteBatch("track")

\* ------------------------------------------- properties of the round trip
\* The writes to the key (fType, fNum) that returned, oldest first.
WritesTo(t, n) == SelectSeq(written, LAMBDA w : w.fType = t /\ w.fNum = n)

\* The image handed to the last writeImage of the key.
LastWritten(t, n) == WritesTo(t, n)[Len(WritesTo(t, n))].image

\* The caller's last call was a readFrame of a known category whose key
\* had been written before.
ReadBack ==
    /\ wcall[1].op = "read"
    /\ wcall[1].fType \in availableTypes
    /\ WritesTo(wcall[1].fType, wcall[1].fNum) # <<>>

TrackAt(stages) == fcall.op = "track" /\ fcall.stage \in stages

\* The contours that pass the area filter: area >= contourMinArea (the code
\* has no upper bound).
Eligible(cs) == { k \in 1..Len(cs) : contourArea(cs[k]) >= contourMinArea }

\* The first contour of greatest area among the eligible ones.
LargestFirst(cs) ==
    CHOOSE k \in Eligible(cs) :
        \A j \in Eligible(cs) :
            \/ contourArea(cs[j]) < contourArea(cs[k])
            \/ (contourArea(cs[j]) = contourArea(cs[k]) /\ k <= j)

\* The rectangle cv2.rectangle draws for a contour.
RectOf(c) ==
    LET r == boundingRect(c) IN <<r[1], r[2], r[1] + r[3], r[2] + r[4]>>

\* The contours the call bounded by a shape: those whose rectangle is on
\* the overlay, or the one a circle of positive radius was returned for.
Bounded ==
    IF variant = "filter"
    THEN { k \in 1..Len(fcall.contours) :
             RectOf(fcall.contours[k]) \in Range(heap[fcall.img].rects) }
    ELSE {}

\* C11: the selected contour has an area of at least the minimum, and among
\* the eligible contours exactly the one of greatest area, the first of
\* them on a tie, is selected and bounded.
C11_LargestEligibleSelected ==
    TrackAt({"Estimated", "Done"}) =>
        /\ \A k \in Bounded : contourArea(fcall.contours[k]) >= contourMinArea
        /\ Bounded = IF Eligible(fcall.contours) = {} THEN {}
                     ELSE {LargestFirst(fcall.contours)}

\* C12: when no contour survives the area filter, in particular when the
\* two rasters are identical, the call raises nothing, bounds nothing and
\* returns an overlay equal to the base raster pixel for pixel.
C12_EmptyResultIsBase ==
    /\ (fcall.op = "track" /\ fhist.in0[1] = fhist.in0[2]) => fcall.stage # "Raised"
    /\ (TrackAt({"Done"}) /\ Eligible(fcall.contours) = {}) =>
          /\ fcall.ret = Ok(fhist.in0[1])
          /\ Bounded = {}

\* The points of a contour (its corners), and what it is for a point to lie
\* within or on a drawn rectangle and within or on the returned circle.
Points(c) == { <<c.x0, c.y0>>, <<c.x1, c.y0>>, <<c.x0, c.y1>>, <<c.x1, c.y1>> }

InRect(p, r) == r[1] <= p[1] /\ p[1] <= r[3] /\ r[2] <= p[2] /\ p[2] <= r[4]

InCircle(p, center, radius) ==
    /\ radius > 0
    /\ (p[1] - center[1]) * (p[1] - center[1]) + (p[2] - center[2]) * (p[2] - center[2])
          <= radius * radius

\* C13: every point of a contour selected by the area filter lies within or
\* on the bounding shape returned for it: a rectangle on the overlay of
\* filter.py, the circle (center, radius) returned by 2d_filter.py.
C13_ShapeContainsContour ==
    TrackAt({"Estimated", "Done"}) =>
        \A k \in Eligible(fcall.contours) :
            \A p \in Points(fcall.contours[k]) :
                IF variant = "filter"
                THEN \E r \in Range(heap[fcall.img].rects) : InRect(p, r)
                ELSE InCircle(p, fcall.center, fcall.radius)

\* C14: a call with the same rasters returns the same result whatever the
\* frame counter and the timer of the object are and whatever was called
\* in between: every result of the method that returned first equals that
\* first result.
C14_Deterministic ==
    (fcall.stage = "Done" /\ fcall.op = fhist.first.op) =>
        fcall.ret = fhist.first.ret

\* A second tracking call that bounded a contour, made with other fields
\* of the object than the first one.
C14_Witness ==
    /\ TrackAt({"Done"})
    /\ fhist.first.op = "track" /\ fhist.first.call < fhist.calls
    /\ fhist.first.self # fhist.self0
    /\ Bounded # {}

DifferenceEnded == fcall.op = "difference" /\ fcall.stage \in {"Done", "Raised"}

\* Some sample of the first raster is below, and some above, the sample of
\* the second raster at the same place.
BothSigns(a, b) ==
    /\ Len(a.px) = Len(b.px)
    /\ \E i \in 1..Len(a.px) : \E c \in 1..3 : a.px[i][c] < b.px[i][c]
    /\ \E i \in 1..Len(a.px) : \E c \in 1..3 : a.px[i][c] > b.px[i][c]

\* C15: the difference is symmetric: difference(a, b) is what
\* difference(b, a) gives, raster or error.
C15_DifferenceSymmetric ==
    DifferenceEnded => fcall.ret = computeDifferenceAlgorithm(heap[2], heap[1])

C15_Witness ==
    DifferenceEnded /\ fcall.stage = "Done" /\ BothSigns(heap[1], heap[2])

\* The difference of two 8-bit samples, taken in the integers.
Distance(a, b) == IF a >= b THEN a - b ELSE b - a

SamplesAreDistances(d, a, b) ==
    /\ Len(d.px) = Len(a.px)
    /\ \A i \in 1..Len(d.px) : \A c \in 1..3 :
          /\ d.px[i][c] = Distance(a.px[i][c], b.px[i][c])
          /\ d.px[i][c] \in 0..255
    /\ (a = b => \A i \in 1..Len(d.px) : d.px[i] = <<0, 0, 0>>)

\* C16: every sample of a difference raster is |a - b| of the two 8-bit
\* samples, lies in 0..255 without wraparound, and the difference of a
\* raster with itself is zero everywhere; in the difference method and in
\* the first stage of the tracking method.
C16_DifferenceIsDistance ==
    /\ (fcall.op = "difference" /\ fcall.stage = "Done") =>
          SamplesAreDistances(fcall.ret.val, heap[1], heap[2])
    /\ (fcall.op = "track" /\ fhist.made.diff # None) =>
          SamplesAreDistances(fhist.made.diff, fhist.in0[1], fhist.in0[2])

\* A difference in which the first sample is the smaller one.
C16_Witness ==
    /\ fcall.op = "difference" /\ fcall.stage = "Done"
    /\ \E i \in 1..Len(heap[1].px) : heap[1].px[i][1] < heap[2].px[i][1]

\* C17: binary thresholding gives only 0 and 255, and 255 exactly for the
\* samples strictly above the threshold (a sample equal to it gives 0): for
\* threshold 25 on the grayscale difference and 127 on the colour frame.
C17_BinaryThreshold ==
    /\ (fcall.op = "track" /\ fhist.made.thresh # None) =>
          \A i \in 1..Len(fhist.made.thresh.px) :
             /\ fhist.made.thresh.px[i] \in {0, 255}
             /\ (fhist.made.thresh.px[i] = 255) = (fhist.made.gray.px[i] > threshold)
    /\ (fcall.op = "otsu" /\ fcall.stage = "Done") =>
          \A i \in 1..Len(fcall.ret.val.px) : \A c \in 1..3 :
             /\ fcall.ret.val.px[i][c] \in {0, 255}
             /\ (fcall.ret.val.px[i][c] = 255) = (heap[1].px[i][c] > otsuThreshold)

\* A grayscale difference with a sample equal to the threshold and one
\* just above it.
C17_Witness ==
    /\ fcall.op = "track" /\ fhist.made.thresh # None
    /\ \E i \in 1..Len(fhist.made.gray.px) : fhist.made.gray.px[i] = threshold
    /\ \E i \in 1..Len(fhist.made.gray.px) : fhist.made.gray.px[i] = threshold + 1

StageOrder ==
    <<"Start", "Differenced", "Grayscaled", "Binarized", "Morphed", "Contoured",
      "Estimated", "Done">>

C20_NoMutation ==
    fcall.op = "track" =>
        /\ Arguments = fhist.in0
        /\ fcall.img \notin {1, 2} /\ fcall.blank \notin {1, 2}
        /\ fcall.diff # 0 =>
              heap[fcall.diff] = IF fhist.made.gray # None THEN fhist.made.gray
                                 ELSE fhist.made.diff
        /\ fcall.thresh # 0 => heap[fcall.thresh] = fhist.made.thresh
        /\ fcall.dillation # 0 => heap[fcall.dillation] = fhist.made.dillation

\* --------------------------------------------- properties of the morphology
Foreground(mask) == Cardinality({ i \in 1..Len(mask) : mask[i] # 0 })

====
